---------------------------- MODULE Spec2Model ----------------------------
(***************************************************************************)
(* A model of scripts/generate_test_vectors.py of CXEMA: the catalog of   *)
(* chip models (LEVEL_CONFIG), the per-chip simulation functions,         *)
(* the test-vector generator (generate_test_vector) and the level          *)
(* reconciliation (process_level, main).                                   *)
(*                                                                         *)
(* Python lists and strings are sequences; Python indexes from 0 and the   *)
(* operator At(s, i) reads s[i] with the index of the source.  A string is *)
(* a sequence of one-character strings.                                    *)
(***************************************************************************)
EXTENDS Integers, Sequences, FiniteSets, TLC

(***************************************************************************)
(* Bounds of the model                                                     *)
(***************************************************************************)
\* longest waveform handed to generate_test_vector
MaxLen == 6
\* largest stability_ticks / warmup_ticks of a direct call (the catalog's own
\* values are program constants, see LEVEL_CONFIG)
MaxStab == 4
MaxWarm == 3
\* most ticks of a stepped run of a chip model (n_ticks), by chip: the divider
\* needs 16 ticks for 8 rising edges, the memory has 6 input lines
MaxTicks == 5
DivTicks == 16
RamTicks == 3
\* the oscillator has no input lines; the shift register needs 7 ticks for 4
\* edges
OscTicks == 16
ShiftTicks == 7
\* the counter needs 16 rising edges to wrap: past FreeTicks ticks its runs
\* are driven by a free-running clock, with CLR free at tick ClearTick only
FreeTicks == 3
CountTicks == 40
ClearTick == 20
\* most ticks of a run when several runs follow each other
IsoTicks == 2
\* most ticks of a first run of any chip of the catalog
CatTicks == 2
\* the memory addresses the stepped runs drive on (A2, A1, A0)
Addrs == {0, 1, 5, 6}
\* longest 'values' string of an input waveform of a level file
MaxValLen == 2
\* most level files of one batch
MaxLevels == 2
\* most calls of process_level on one level file
MaxPasses == 3

Bit == {0, 1}

Min(a, b) == IF a < b THEN a ELSE b

\* s[i] of the source (0-based)
At(s, i) == s[i + 1]

\* all sequences over S of length 0 .. n
SeqsUpTo(S, n) == UNION {[1..k -> S] : k \in 0..n}

\* d.get(k, default)
Get(d, k, default) == IF k \in DOMAIN d THEN d[k] ELSE default

(***************************************************************************)
(* LEVEL_CONFIG: inputs, outputs, pin_map and the timing hints of every    *)
(* cataloged chip.  An entry without 'stability_ticks' / 'warmup_ticks'    *)
(* has no such field, as in the source.                                    *)
(***************************************************************************)
LEVEL_CONFIG ==
  [ CX04 |-> [inputs |-> <<"A", "B", "C", "D">>,
              outputs |-> <<"~A", "~B", "~C", "~D">>,
              pin_map |-> ("A" :> 1 @@ "B" :> 2 @@ "C" :> 3 @@ "D" :> 4 @@
                           "~A" :> 7 @@ "~B" :> 8 @@ "~C" :> 9 @@ "~D" :> 10)],
    CX08 |-> [inputs |-> <<"A", "B", "C", "D">>,
              outputs |-> <<"Y0", "Y1">>,
              pin_map |-> ("A" :> 1 @@ "B" :> 2 @@ "C" :> 3 @@ "D" :> 4 @@
                           "Y0" :> 7 @@ "Y1" :> 8)],
    CX02 |-> [inputs |-> <<"A", "B", "C", "D", "E", "F">>,
              outputs |-> <<"Y0", "Y1", "Y2">>,
              pin_map |-> ("A" :> 1 @@ "B" :> 2 @@ "C" :> 3 @@ "D" :> 4 @@
                           "E" :> 9 @@ "F" :> 10 @@
                           "Y0" :> 7 @@ "Y1" :> 8 @@ "Y2" :> 11)],
    CX00 |-> [inputs |-> <<"A", "B", "C", "D", "E", "F">>,
              outputs |-> <<"Y0", "Y1", "Y2">>,
              pin_map |-> ("A" :> 1 @@ "B" :> 2 @@ "C" :> 3 @@ "D" :> 4 @@
                           "E" :> 9 @@ "F" :> 10 @@
                           "Y0" :> 7 @@ "Y1" :> 8 @@ "Y2" :> 11)],
    CXR01 |-> [inputs |-> <<>>,
               outputs |-> <<"~R">>,
               pin_map |-> ("~R" :> 7)],
    CX279 |-> [inputs |-> <<"S", "R">>,
               outputs |-> <<"Q", "~Q">>,
               pin_map |-> ("S" :> 1 @@ "R" :> 2 @@ "Q" :> 7 @@ "~Q" :> 8),
               stability_ticks |-> 2,
               warmup_ticks |-> 2],
    CX279E |-> [inputs |-> <<"S", "R", "E">>,
                outputs |-> <<"Q", "~Q">>,
                pin_map |-> ("S" :> 1 @@ "R" :> 2 @@ "E" :> 3 @@
                             "Q" :> 7 @@ "~Q" :> 8),
                stability_ticks |-> 2,
                warmup_ticks |-> 2],
    CX556 |-> [inputs |-> <<>>,
               outputs |-> <<"CL1", "CL2">>,
               pin_map |-> ("CL1" :> 4 @@ "CL2" :> 8),
               stability_ticks |-> 0],
    CX74 |-> [inputs |-> <<"D", "CLK">>,
              outputs |-> <<"Q", "~Q">>,
              pin_map |-> ("D" :> 1 @@ "CLK" :> 2 @@ "Q" :> 7 @@ "~Q" :> 8),
              stability_ticks |-> 3],
    CXF02 |-> [inputs |-> <<"CLK", "S">>,
               outputs |-> <<"Y">>,
               pin_map |-> ("CLK" :> 1 @@ "S" :> 2 @@ "Y" :> 7),
               stability_ticks |-> 0],
    CX139 |-> [inputs |-> <<"A0", "A1", "E">>,
               outputs |-> <<"Y0", "Y1", "Y2", "Y3">>,
               pin_map |-> ("A0" :> 1 @@ "A1" :> 2 @@ "E" :> 3 @@
                            "Y0" :> 7 @@ "Y1" :> 8 @@ "Y2" :> 9 @@ "Y3" :> 10),
               stability_ticks |-> 2],
    CX83 |-> [inputs |-> <<"A0", "A1", "B0", "B1", "CI">>,
              outputs |-> <<"S0", "S1", "CO">>,
              pin_map |-> ("A0" :> 1 @@ "A1" :> 2 @@ "B0" :> 3 @@ "B1" :> 4 @@
                           "CI" :> 5 @@ "S0" :> 7 @@ "S1" :> 8 @@ "CO" :> 9),
              stability_ticks |-> 4],
    CX93 |-> [inputs |-> <<"CLK">>,
              outputs |-> <<"Y">>,
              pin_map |-> ("CLK" :> 1 @@ "Y" :> 7),
              stability_ticks |-> 2],
    CX153 |-> [inputs |-> <<"D0", "D1", "D2", "D3", "S0", "S1">>,
               outputs |-> <<"Y">>,
               pin_map |-> ("D0" :> 1 @@ "D1" :> 2 @@ "D2" :> 3 @@ "D3" :> 4 @@
                            "S0" :> 6 @@ "S1" :> 7 @@ "Y" :> 8),
               stability_ticks |-> 2],
    CX161 |-> [inputs |-> <<"CLK", "CLR">>,
               outputs |-> <<"Q0", "Q1", "Q2", "Q3">>,
               pin_map |-> ("CLK" :> 1 @@ "CLR" :> 2 @@
                            "Q0" :> 7 @@ "Q1" :> 8 @@ "Q2" :> 9 @@ "Q3" :> 10),
               stability_ticks |-> 2],
    CX195 |-> [inputs |-> <<"DIN", "CLK">>,
               outputs |-> <<"Q0", "Q1", "Q2", "Q3">>,
               pin_map |-> ("DIN" :> 1 @@ "CLK" :> 2 @@
                            "Q0" :> 7 @@ "Q1" :> 8 @@ "Q2" :> 9 @@ "Q3" :> 10),
               stability_ticks |-> 2],
    CX6116 |-> [inputs |-> <<"A0", "A1", "A2", "WE", "RE", "D_in">>,
                outputs |-> <<"D_out">>,
                pin_map |-> ("A0" :> 1 @@ "A1" :> 2 @@ "A2" :> 3 @@ "WE" :> 4 @@
                             "RE" :> 5 @@ "D_in" :> 7 @@ "D_out" :> 7),
                stability_ticks |-> 2],
    CX181 |-> [inputs |-> <<"A0", "A1", "B0", "B1", "F0", "F1">>,
               outputs |-> <<"Y0", "Y1", "Z">>,
               pin_map |-> ("A0" :> 1 @@ "A1" :> 2 @@ "B0" :> 3 @@ "B1" :> 4 @@
                            "F0" :> 6 @@ "F1" :> 7 @@
                            "Y0" :> 8 @@ "Y1" :> 9 @@ "Z" :> 10),
               stability_ticks |-> 2] ]

\* the default of generate_test_vector's stability_ticks and of
\* config.get('stability_ticks', 1)
DefaultStabilityTicks == 1
\* the default of warmup_ticks and of config.get('warmup_ticks', 0)
DefaultWarmupTicks == 0

\* config.get('stability_ticks', 1) and config.get('warmup_ticks', 0)
StabilityTicksOf(name) ==
  Get(LEVEL_CONFIG[name], "stability_ticks", DefaultStabilityTicks)
WarmupTicksOf(name) ==
  Get(LEVEL_CONFIG[name], "warmup_ticks", DefaultWarmupTicks)

(***************************************************************************)
(* State                                                                   *)
(***************************************************************************)
VARIABLES
  \* one call of generate_test_vector
  tvPc,        \* "call" before the call, "ret" after it has returned
  tvComp,      \* the cataloged chip whose timing hints are used, or "direct"
  tvValues,    \* argument values
  tvStab,      \* argument stability_ticks
  tvWarm,      \* argument warmup_ticks
  tvTest,      \* the returned test vector
  \* one run of a simulation function, advanced tick by tick
  simPc,       \* "idle" before the first run, "running" in the loop, "done" after the return
  comp,        \* the chip whose simulation function runs
  inputs,      \* the input waveforms: signal name -> list of 0/1
  tick,        \* the loop variable t: the number of iterations done
  locals,      \* the local variables of the running function
  outputs,     \* the returned dict: signal name -> list, at "done"
  stale,       \* an earlier run left non-reset values in its locals
  \* main and process_level
  mainPc,      \* "start", "loop" (at the for), "processed" (process_level returned),
               \* "crashed" (an exception left main), "done"
  remaining,   \* the level files the loop has still to process
  dryRun,      \* args.dry_run
  modified_count,
  exit_code,   \* what main returns
  level,       \* the level file as process_level read it
  data,        \* process_level's data when it returned
  file,        \* the level file after process_level
  ret,         \* what process_level returned
  report,      \* what process_level printed
  skipped,     \* an earlier level of the batch was reported and skipped
  passes       \* the calls of process_level on the current level file so far

tvVars == <<tvPc, tvComp, tvValues, tvStab, tvWarm, tvTest>>
simVars == <<simPc, comp, inputs, tick, locals, outputs, stale>>
mainVars == <<mainPc, remaining, dryRun, modified_count, exit_code,
              level, data, file, ret, report, skipped, passes>>
vars == <<tvVars, simVars, mainVars>>

(***************************************************************************)
(* generate_test_vector                                                    *)
(***************************************************************************)
\* test = ['?'] * len(values)
InitTest(values) == [i \in 1..Len(values) |-> "?"]

\* range(min(warmup_ticks, len(values))): the end of the warm-up loop
WarmupEndShort(values, warmup_ticks) == Min(warmup_ticks, Len(values)) - 1
WarmupEnd(values, warmup_ticks) == Min(warmup_ticks, Len(values))

\* the warm-up loop from index i on: test[i] = 'x'
RECURSIVE MarkWarmup(_, _, _, _)
MarkWarmup(test, values, warmup_ticks, i) ==
  IF i >= WarmupEnd(values, warmup_ticks) THEN test
  ELSE MarkWarmup([test EXCEPT ![i + 1] = "x"], values, warmup_ticks, i + 1)

\* values[i] != values[i-1]
IsTransition(values, i) == At(values, i) # At(values, i - 1)

\* range(stability_ticks): the end of the window loop
WindowLenShort(stability_ticks) == stability_ticks - 1
WindowLenLong(stability_ticks) == stability_ticks + 1
WindowLen(stability_ticks) == stability_ticks

\* if i + j < len(values): test[i + j] = 'x'   (k is i + j)
MarkTickGrowing(test, values, k) ==
  IF k < Len(test) THEN [test EXCEPT ![k + 1] = "x"] ELSE Append(test, "x")
MarkTick(test, values, k) ==
  IF k < Len(values) THEN [test EXCEPT ![k + 1] = "x"] ELSE test

\* the window loop of the transition at i, from j on
RECURSIVE MarkWindow(_, _, _, _, _)
MarkWindow(test, values, stability_ticks, i, j) ==
  IF j >= WindowLen(stability_ticks) THEN test
  ELSE MarkWindow(MarkTick(test, values, i + j), values, stability_ticks, i, j + 1)

\* the transition loop, from index i on
RECURSIVE MarkTransitions(_, _, _, _)
MarkTransitions(test, values, stability_ticks, i) ==
  IF i >= Len(values) THEN test
  ELSE MarkTransitions(
         IF IsTransition(values, i)
           THEN MarkWindow(test, values, stability_ticks, i, 0)
           ELSE test,
         values, stability_ticks, i + 1)

\* ''.join(test) of the list the two loops leave
generate_test_vector(values, stability_ticks, warmup_ticks) ==
  MarkTransitions(MarkWarmup(InitTest(values), values, warmup_ticks, 0),
                  values, stability_ticks, 1)

(***************************************************************************)
(* Specification SpecTV: one call of generate_test_vector, either with the *)
(* timing hints process_level reads from a catalog entry or with hints of  *)
(* its own.                                                                *)
(***************************************************************************)
Catalog == DOMAIN LEVEL_CONFIG

TVInit ==
  /\ tvPc = "call"
  /\ tvValues \in SeqsUpTo(Bit, MaxLen)
  /\ tvComp \in Catalog \cup {"direct"}
  /\ tvStab \in IF tvComp \in Catalog THEN {StabilityTicksOf(tvComp)} ELSE 0..MaxStab
  /\ tvWarm \in IF tvComp \in Catalog THEN {WarmupTicksOf(tvComp)} ELSE 0..MaxWarm
  /\ tvTest = <<>>

GenerateTestVector ==
  /\ tvPc = "call"
  /\ tvTest' = generate_test_vector(tvValues, tvStab, tvWarm)
  /\ tvPc' = "ret"
  /\ UNCHANGED <<tvComp, tvValues, tvStab, tvWarm>>

(***************************************************************************)
(* The simulation functions.  Each is a loop over t = 0 .. n_ticks-1; the  *)
(* model gives the locals a function sets before its loop (cxNN_locals),   *)
(* one iteration of the loop (sim_cxNN_tick) and the dict it returns       *)
(* (sim_cxNN_ret).  An output list allocated as [0] * n_ticks and assigned *)
(* at index t in iteration t is the list of the values assigned so far.    *)
(***************************************************************************)
\* the truth value of a Python int
Truthy(v) == v # 0

\* [1 - q[t] for t in range(n_ticks)]
ComplementSame(q) == q
Complement(q) == [i \in DOMAIN q |-> 1 - q[i]]

\* ---- sim_cx74: D flip-flop ----
cx74_locals == [q |-> <<>>, state |-> 0, prev_clk |-> 0]

\* if clk and not prev_clk
cx74_rising_level(clk, prev_clk) == Truthy(clk)
cx74_rising(clk, prev_clk) == Truthy(clk) /\ ~Truthy(prev_clk)

sim_cx74_tick(l, ins, t) ==
  LET clk == At(ins["CLK"], t)
      d == At(ins["D"], t)
      state1 == IF cx74_rising(clk, l.prev_clk) THEN d ELSE l.state
  IN [l EXCEPT !.state = state1, !.q = Append(@, state1), !.prev_clk = clk]

sim_cx74_ret(l) == ("Q" :> l.q @@ "~Q" :> Complement(l.q))

\* ---- sim_cx93: divide by 4 ----
cx93_locals == [y |-> <<>>, count |-> 0, prev_clk |-> 0]

\* count = (count + 1) % 4
cx93_count_mod3(count) == (count + 1) % 3
cx93_count(count) == (count + 1) % 4

sim_cx93_tick(l, ins, t) ==
  LET clk == At(ins["CLK"], t)
      count1 == IF Truthy(clk) /\ ~Truthy(l.prev_clk)
                  THEN cx93_count(l.count) ELSE l.count
  IN [l EXCEPT !.count = count1,
               !.y = Append(@, IF count1 >= 2 THEN 1 ELSE 0),
               !.prev_clk = clk]

sim_cx93_ret(l) == ("Y" :> l.y)

\* ---- sim_cx161: 4-bit counter with synchronous clear ----
cx161_locals ==
  [q0 |-> <<>>, q1 |-> <<>>, q2 |-> <<>>, q3 |-> <<>>, count |-> 0, prev_clk |-> 0]

\* if clr: count = 0 / else: count = (count + 1) % 16
cx161_count_mod15(count, clr) == IF Truthy(clr) THEN 0 ELSE (count + 1) % 15
cx161_count(count, clr) == IF Truthy(clr) THEN 0 ELSE (count + 1) % 16

sim_cx161_tick(l, ins, t) ==
  LET clk == At(ins["CLK"], t)
      clr == At(ins["CLR"], t)
      count1 == IF Truthy(clk) /\ ~Truthy(l.prev_clk)
                  THEN cx161_count(l.count, clr)
                  ELSE l.count
  IN [l EXCEPT !.count = count1,
               !.q0 = Append(@, count1 % 2),
               !.q1 = Append(@, (count1 \div 2) % 2),
               !.q2 = Append(@, (count1 \div 4) % 2),
               !.q3 = Append(@, (count1 \div 8) % 2),
               !.prev_clk = clk]

sim_cx161_ret(l) == ("Q0" :> l.q0 @@ "Q1" :> l.q1 @@ "Q2" :> l.q2 @@ "Q3" :> l.q3)

\* ---- sim_cx6116: 8x1 bit RAM ----
\* memory = [0] * 8 is the sequence memory[0] .. memory[7]
cx6116_locals == [d_out |-> <<>>, memory |-> [i \in 1..8 |-> 0]]

\* addr = inputs['A2'][t] * 4 + inputs['A1'][t] * 2 + inputs['A0'][t]
cx6116_addr_low(ins, t) == At(ins["A1"], t) * 2 + At(ins["A0"], t)
cx6116_addr(ins, t) ==
  At(ins["A2"], t) * 4 + At(ins["A1"], t) * 2 + At(ins["A0"], t)

\* if we and not re
cx6116_writes_tied(we, re) == Truthy(we)
cx6116_writes(we, re) == Truthy(we) /\ ~Truthy(re)

\* if re and not we
cx6116_reads(we, re) == Truthy(re) /\ ~Truthy(we)

sim_cx6116_tick(l, ins, t) ==
  LET addr == cx6116_addr(ins, t)
      we == At(ins["WE"], t)
      re == At(ins["RE"], t)
      d_in == At(ins["D_in"], t)
      memory1 == IF cx6116_writes(we, re)
                   THEN [l.memory EXCEPT ![addr + 1] = d_in] ELSE l.memory
  IN [l EXCEPT !.memory = memory1,
               !.d_out = Append(@, IF cx6116_reads(we, re)
                                     THEN At(memory1, addr) ELSE 0)]

sim_cx6116_ret(l) == ("D_out" :> l.d_out)

\* ---- Python's & | ^ on non-negative ints ----
RECURSIVE BitAnd(_, _)
BitAnd(a, b) ==
  IF a = 0 \/ b = 0 THEN 0
  ELSE (a % 2) * (b % 2) + 2 * BitAnd(a \div 2, b \div 2)

RECURSIVE BitOr(_, _)
BitOr(a, b) ==
  IF a = 0 THEN b ELSE IF b = 0 THEN a
  ELSE (IF a % 2 = 1 \/ b % 2 = 1 THEN 1 ELSE 0) + 2 * BitOr(a \div 2, b \div 2)

RECURSIVE BitXor(_, _)
BitXor(a, b) ==
  IF a = 0 THEN b ELSE IF b = 0 THEN a
  ELSE ((a + b) % 2) + 2 * BitXor(a \div 2, b \div 2)

\* the dict a return statement builds from list comprehensions, after t
\* elements of each: element t of each list appended
AppendAll(lists, elem) == [k \in DOMAIN lists |-> Append(lists[k], elem[k])]

\* ---- sim_cx04: four inverters ----
cx04_locals == [ret |-> ("~A" :> <<>> @@ "~B" :> <<>> @@ "~C" :> <<>> @@ "~D" :> <<>>)]

sim_cx04_tick(l, ins, t) ==
  [l EXCEPT !.ret = AppendAll(@, "~A" :> 1 - At(ins["A"], t)
                               @@ "~B" :> 1 - At(ins["B"], t)
                               @@ "~C" :> 1 - At(ins["C"], t)
                               @@ "~D" :> 1 - At(ins["D"], t))]

sim_cx04_ret(l) == l.ret

\* ---- sim_cx08: four-input AND / OR ----
cx08_locals == [ret |-> ("Y0" :> <<>> @@ "Y1" :> <<>>)]

sim_cx08_tick(l, ins, t) ==
  LET a == At(ins["A"], t)
      b == At(ins["B"], t)
      c == At(ins["C"], t)
      d == At(ins["D"], t)
  IN [l EXCEPT !.ret = AppendAll(@, "Y0" :> BitAnd(BitAnd(BitAnd(a, b), c), d)
                                 @@ "Y1" :> BitOr(BitOr(BitOr(a, b), c), d))]

sim_cx08_ret(l) == l.ret

\* ---- sim_cx02: three NOR gates ----
cx02_locals == [ret |-> ("Y0" :> <<>> @@ "Y1" :> <<>> @@ "Y2" :> <<>>)]

sim_cx02_tick(l, ins, t) ==
  [l EXCEPT !.ret = AppendAll(@, "Y0" :> 1 - BitOr(At(ins["A"], t), At(ins["B"], t))
                               @@ "Y1" :> 1 - BitOr(At(ins["C"], t), At(ins["D"], t))
                               @@ "Y2" :> 1 - BitOr(At(ins["E"], t), At(ins["F"], t)))]

sim_cx02_ret(l) == l.ret

\* ---- sim_cx00: three NAND gates ----
cx00_locals == [ret |-> ("Y0" :> <<>> @@ "Y1" :> <<>> @@ "Y2" :> <<>>)]

sim_cx00_tick(l, ins, t) ==
  [l EXCEPT !.ret = AppendAll(@, "Y0" :> 1 - BitAnd(At(ins["A"], t), At(ins["B"], t))
                               @@ "Y1" :> 1 - BitAnd(At(ins["C"], t), At(ins["D"], t))
                               @@ "Y2" :> 1 - BitAnd(At(ins["E"], t), At(ins["F"], t)))]

sim_cx00_ret(l) == l.ret

\* ---- sim_cxr01: power-on reset ----
reset_period == 4

cxr01_locals == [ret |-> ("~R" :> <<>>)]

sim_cxr01_tick(l, ins, t) ==
  [l EXCEPT !.ret = AppendAll(@, "~R" :> (IF t < reset_period THEN 1 ELSE 0))]

sim_cxr01_ret(l) == l.ret

\* ---- sim_cx279: RS flip-flop ----
cx279_locals == [q |-> <<>>, state |-> 0]

\* if s and not r: state = 1 / elif r and not s: state = 0
cx279_state(state, s, r) ==
  IF Truthy(s) /\ ~Truthy(r) THEN 1
  ELSE IF Truthy(r) /\ ~Truthy(s) THEN 0
  ELSE state

sim_cx279_tick(l, ins, t) ==
  LET s == At(ins["S"], t)
      r == At(ins["R"], t)
      state1 == cx279_state(l.state, s, r)
  IN [l EXCEPT !.state = state1, !.q = Append(@, state1)]

sim_cx279_ret(l) == ("Q" :> l.q @@ "~Q" :> Complement(l.q))

\* ---- sim_cx279e: RS flip-flop with enable ----
cx279e_locals == [q |-> <<>>, state |-> 0]

\* if e: (if s and not r: state = 1 / elif r and not s: state = 0)
cx279e_state_always(state, e, s, r) ==
  IF Truthy(s) /\ ~Truthy(r) THEN 1
  ELSE IF Truthy(r) /\ ~Truthy(s) THEN 0
  ELSE state
cx279e_state(state, e, s, r) ==
  IF Truthy(e)
    THEN (IF Truthy(s) /\ ~Truthy(r) THEN 1
          ELSE IF Truthy(r) /\ ~Truthy(s) THEN 0
          ELSE state)
    ELSE state

sim_cx279e_tick(l, ins, t) ==
  LET e == At(ins["E"], t)
      s == At(ins["S"], t)
      r == At(ins["R"], t)
      state1 == cx279e_state(l.state, e, s, r)
  IN [l EXCEPT !.state = state1, !.q = Append(@, state1)]

sim_cx279e_ret(l) == ("Q" :> l.q @@ "~Q" :> Complement(l.q))

\* ---- sim_cx556: dual clock generator ----
cx556_locals == [ret |-> ("CL1" :> <<>> @@ "CL2" :> <<>>)]

\* 1 - (t // 2) % 2
cx556_cl1_low(t) == (t \div 2) % 2
cx556_cl1(t) == 1 - ((t \div 2) % 2)

\* 1 - (t // 4) % 2
cx556_cl2(t) == 1 - ((t \div 4) % 2)

sim_cx556_tick(l, ins, t) ==
  [l EXCEPT !.ret = AppendAll(@, "CL1" :> cx556_cl1(t) @@ "CL2" :> cx556_cl2(t))]

sim_cx556_ret(l) == l.ret

\* ---- sim_cxf02: frequency doubler ----
cxf02_locals == [y |-> <<>>]

\* delayed_clk = inputs['CLK'][t-2] if t >= 2 else 0
cxf02_delayed_one(ins, t) == IF t >= 1 THEN At(ins["CLK"], t - 1) ELSE 0
cxf02_delayed(ins, t) == IF t >= 2 THEN At(ins["CLK"], t - 2) ELSE 0

sim_cxf02_tick(l, ins, t) ==
  LET clk == At(ins["CLK"], t)
      s == At(ins["S"], t)
  IN [l EXCEPT !.y = Append(@, IF ~Truthy(s) THEN clk
                               ELSE BitXor(clk, cxf02_delayed(ins, t)))]

sim_cxf02_ret(l) == ("Y" :> l.y)

\* ---- sim_cx139: 2-to-4 decoder with enable ----
cx139_locals == [y0 |-> <<>>, y1 |-> <<>>, y2 |-> <<>>, y3 |-> <<>>]

\* addr = a1 * 2 + a0
cx139_addr_swapped(a0, a1) == a0 * 2 + a1
cx139_addr(a0, a1) == a1 * 2 + a0

sim_cx139_tick(l, ins, t) ==
  LET e == At(ins["E"], t)
      a0 == At(ins["A0"], t)
      a1 == At(ins["A1"], t)
      addr == cx139_addr(a0, a1)
      sel(n) == IF Truthy(e) /\ addr = n THEN 1 ELSE 0
  IN [l EXCEPT !.y0 = Append(@, sel(0)), !.y1 = Append(@, sel(1)),
               !.y2 = Append(@, sel(2)), !.y3 = Append(@, sel(3))]

sim_cx139_ret(l) == ("Y0" :> l.y0 @@ "Y1" :> l.y1 @@ "Y2" :> l.y2 @@ "Y3" :> l.y3)

\* ---- sim_cx83: 2-bit full adder ----
cx83_locals == [s0 |-> <<>>, s1 |-> <<>>, co |-> <<>>]

sim_cx83_tick(l, ins, t) ==
  LET a == At(ins["A1"], t) * 2 + At(ins["A0"], t)
      b == At(ins["B1"], t) * 2 + At(ins["B0"], t)
      ci == At(ins["CI"], t)
      result == a + b + ci
  IN [l EXCEPT !.s0 = Append(@, BitAnd(result, 1)),
               !.s1 = Append(@, BitAnd(result \div 2, 1)),
               !.co = Append(@, BitAnd(result \div 4, 1))]

sim_cx83_ret_no_carry(l) == ("S0" :> l.s0 @@ "S1" :> l.s1)
sim_cx83_ret(l) == ("S0" :> l.s0 @@ "S1" :> l.s1 @@ "CO" :> l.co)

\* ---- sim_cx153: 4-to-1 multiplexer ----
cx153_locals == [y |-> <<>>]

sim_cx153_tick(l, ins, t) ==
  LET s == At(ins["S1"], t) * 2 + At(ins["S0"], t)
  IN [l EXCEPT !.y = Append(@, IF s = 0 THEN At(ins["D0"], t)
                               ELSE IF s = 1 THEN At(ins["D1"], t)
                               ELSE IF s = 2 THEN At(ins["D2"], t)
                               ELSE At(ins["D3"], t))]

sim_cx153_ret(l) == ("Y" :> l.y)

\* ---- sim_cx195: 4-bit shift register ----
\* reg = [0, 0, 0, 0] is the sequence reg[0] .. reg[3]
cx195_locals_high ==
  [q0 |-> <<>>, q1 |-> <<>>, q2 |-> <<>>, q3 |-> <<>>,
   reg |-> <<0, 0, 0, 0>>, prev_clk |-> 1]
cx195_locals ==
  [q0 |-> <<>>, q1 |-> <<>>, q2 |-> <<>>, q3 |-> <<>>,
   reg |-> <<0, 0, 0, 0>>, prev_clk |-> 0]

\* reg = [din, reg[0], reg[1], reg[2]]
cx195_shift_up(reg, din) == <<At(reg, 1), At(reg, 2), At(reg, 3), din>>
cx195_shift(reg, din) == <<din, At(reg, 0), At(reg, 1), At(reg, 2)>>

sim_cx195_tick(l, ins, t) ==
  LET clk == At(ins["CLK"], t)
      din == At(ins["DIN"], t)
      reg1 == IF Truthy(clk) /\ ~Truthy(l.prev_clk)
                THEN cx195_shift(l.reg, din) ELSE l.reg
  IN [l EXCEPT !.reg = reg1,
               !.q0 = Append(@, At(reg1, 0)),
               !.q1 = Append(@, At(reg1, 1)),
               !.q2 = Append(@, At(reg1, 2)),
               !.q3 = Append(@, At(reg1, 3)),
               !.prev_clk = clk]

sim_cx195_ret(l) == ("Q0" :> l.q0 @@ "Q1" :> l.q1 @@ "Q2" :> l.q2 @@ "Q3" :> l.q3)

\* ---- sim_cx181: 2-bit logic unit ----
cx181_locals == [y0 |-> <<>>, y1 |-> <<>>, z |-> <<>>]

sim_cx181_tick(l, ins, t) ==
  LET a == At(ins["A1"], t) * 2 + At(ins["A0"], t)
      b == At(ins["B1"], t) * 2 + At(ins["B0"], t)
      f == At(ins["F1"], t) * 2 + At(ins["F0"], t)
      \* (~a) & 3 of a in 0 .. 3 is 3 - a
      result == IF f = 0 THEN BitAnd(a, b)
                ELSE IF f = 1 THEN BitOr(a, b)
                ELSE IF f = 2 THEN 3 - a
                ELSE BitXor(a, b)
  IN [l EXCEPT !.y0 = Append(@, BitAnd(result, 1)),
               !.y1 = Append(@, BitAnd(result \div 2, 1)),
               !.z = Append(@, IF result = 0 THEN 1 ELSE 0)]

sim_cx181_ret(l) == ("Y0" :> l.y0 @@ "Y1" :> l.y1 @@ "Z" :> l.z)

\* ---- config['sim'] ----
\* the chips the stepped runs of SpecSim and SpecIso call: those with state
\* between ticks, the oscillator, the doubler and the decoder
SimComps ==
  {"CX74", "CX93", "CX161", "CX6116",
   "CX279", "CX279E", "CX556", "CXF02", "CX139", "CX195"}

\* the locals of every modelled function, at the value no function of them
\* has after its initialisation: what a frame holds of the locals its own
\* function does not declare
BlankLocals ==
  [q |-> <<>>, y |-> <<>>, d_out |-> <<>>,
   q0 |-> <<>>, q1 |-> <<>>, q2 |-> <<>>, q3 |-> <<>>,
   y0 |-> <<>>, y1 |-> <<>>, y2 |-> <<>>, y3 |-> <<>>, z |-> <<>>,
   s0 |-> <<>>, s1 |-> <<>>, co |-> <<>>, ret |-> <<>>,
   state |-> 0, count |-> 0, prev_clk |-> 0, reg |-> <<0, 0, 0, 0>>,
   memory |-> [i \in 1..8 |-> 0]]

InitLocals(c) ==
  CASE c = "CX74" -> cx74_locals
    [] c = "CX93" -> cx93_locals
    [] c = "CX161" -> cx161_locals
    [] c = "CX6116" -> cx6116_locals
    [] c = "CX04" -> cx04_locals
    [] c = "CX08" -> cx08_locals
    [] c = "CX02" -> cx02_locals
    [] c = "CX00" -> cx00_locals
    [] c = "CXR01" -> cxr01_locals
    [] c = "CX279" -> cx279_locals
    [] c = "CX279E" -> cx279e_locals
    [] c = "CX556" -> cx556_locals
    [] c = "CXF02" -> cxf02_locals
    [] c = "CX139" -> cx139_locals
    [] c = "CX83" -> cx83_locals
    [] c = "CX153" -> cx153_locals
    [] c = "CX195" -> cx195_locals
    [] c = "CX181" -> cx181_locals

\* the frame of a call of c's function; prev is what the call before left
NewFrameStale(c, prev) ==
  [f \in DOMAIN BlankLocals |->
     IF f \in {"state", "count", "prev_clk", "reg", "memory"}
       THEN prev[f] ELSE BlankLocals[f]]
NewFrame(c, prev) == InitLocals(c) @@ BlankLocals

SimTick(c, l, ins, t) ==
  CASE c = "CX74" -> sim_cx74_tick(l, ins, t)
    [] c = "CX93" -> sim_cx93_tick(l, ins, t)
    [] c = "CX161" -> sim_cx161_tick(l, ins, t)
    [] c = "CX6116" -> sim_cx6116_tick(l, ins, t)
    [] c = "CX04" -> sim_cx04_tick(l, ins, t)
    [] c = "CX08" -> sim_cx08_tick(l, ins, t)
    [] c = "CX02" -> sim_cx02_tick(l, ins, t)
    [] c = "CX00" -> sim_cx00_tick(l, ins, t)
    [] c = "CXR01" -> sim_cxr01_tick(l, ins, t)
    [] c = "CX279" -> sim_cx279_tick(l, ins, t)
    [] c = "CX279E" -> sim_cx279e_tick(l, ins, t)
    [] c = "CX556" -> sim_cx556_tick(l, ins, t)
    [] c = "CXF02" -> sim_cxf02_tick(l, ins, t)
    [] c = "CX139" -> sim_cx139_tick(l, ins, t)
    [] c = "CX83" -> sim_cx83_tick(l, ins, t)
    [] c = "CX153" -> sim_cx153_tick(l, ins, t)
    [] c = "CX195" -> sim_cx195_tick(l, ins, t)
    [] c = "CX181" -> sim_cx181_tick(l, ins, t)

SimRet(c, l) ==
  CASE c = "CX74" -> sim_cx74_ret(l)
    [] c = "CX93" -> sim_cx93_ret(l)
    [] c = "CX161" -> sim_cx161_ret(l)
    [] c = "CX6116" -> sim_cx6116_ret(l)
    [] c = "CX04" -> sim_cx04_ret(l)
    [] c = "CX08" -> sim_cx08_ret(l)
    [] c = "CX02" -> sim_cx02_ret(l)
    [] c = "CX00" -> sim_cx00_ret(l)
    [] c = "CXR01" -> sim_cxr01_ret(l)
    [] c = "CX279" -> sim_cx279_ret(l)
    [] c = "CX279E" -> sim_cx279e_ret(l)
    [] c = "CX556" -> sim_cx556_ret(l)
    [] c = "CXF02" -> sim_cxf02_ret(l)
    [] c = "CX139" -> sim_cx139_ret(l)
    [] c = "CX83" -> sim_cx83_ret(l)
    [] c = "CX153" -> sim_cx153_ret(l)
    [] c = "CX195" -> sim_cx195_ret(l)
    [] c = "CX181" -> sim_cx181_ret(l)

\* the elements of a list
Elems(s) == {s[i] : i \in DOMAIN s}

\* the input signals c's function reads in iteration t
Reads(c) == Elems(LEVEL_CONFIG[c].inputs)

\* inputs[sig][t] raises KeyError for an absent sig and IndexError for a
\* list that ends before t
CanRead(c, ins, t) ==
  \A sig \in Reads(c) : sig \in DOMAIN ins /\ t < Len(ins[sig])

\* the loop of c's function from iteration t on: the locals after the last
\* iteration, or a fault when an iteration raises
RECURSIVE SimLoop(_, _, _, _, _)
SimLoop(c, l, ins, t, n_ticks) ==
  IF t >= n_ticks THEN [ok |-> TRUE, l |-> l]
  ELSE IF ~CanRead(c, ins, t) THEN [ok |-> FALSE]
  ELSE SimLoop(c, SimTick(c, l, ins, t), ins, t + 1, n_ticks)

\* config['sim'](inputs, n_ticks): the returned dict, or a fault
Sim(c, ins, n_ticks) ==
  LET r == SimLoop(c, NewFrame(c, BlankLocals), ins, 0, n_ticks)
  IN IF r.ok THEN [ok |-> TRUE, out |-> SimRet(c, r.l)] ELSE [ok |-> FALSE]

(***************************************************************************)
(* Runs of the simulation functions, one loop iteration per step.  The     *)
(* input values of iteration t are chosen when it runs: no function reads  *)
(* an input beyond index t.  A run may return after any iteration: the     *)
(* state after t iterations is that of a call with n_ticks = t.            *)
(***************************************************************************)
\* the values the input lines take in one tick; the memory is addressed
\* within Addrs
TickInputs(c) ==
  {v \in [Reads(c) -> Bit] :
     c = "CX6116" => (v["A2"] * 4 + v["A1"] * 2 + v["A0"]) \in Addrs}

\* most iterations of a stepped run of c
TicksOf(c) ==
  CASE c = "CX93" -> DivTicks
    [] c = "CX6116" -> RamTicks
    [] c = "CX556" -> OscTicks
    [] c = "CX195" -> ShiftTicks
    [] c = "CX161" -> CountTicks
    [] OTHER -> MaxTicks

\* the input values v of iteration t of a run of c that has read ins: free
\* for every chip but the counter, and in the counter's first FreeTicks
\* ticks; the counter's later ticks are driven by a free-running clock, with
\* CLR low except at tick ClearTick
ClockTail(c, ins, t, v) ==
  (c = "CX161" /\ t >= FreeTicks) =>
     /\ v["CLK"] = 1 - At(ins["CLK"], t - 1)
     /\ t # ClearTick => v["CLR"] = 0

\* locals that differ from their value at the start of a call
Dirty(l) ==
  \/ l.state # 0
  \/ l.count # 0
  \/ l.prev_clk # 0
  \/ \E i \in DOMAIN l.reg : l.reg[i] # 0
  \/ \E i \in DOMAIN l.memory : l.memory[i] # 0

SimInit ==
  /\ simPc = "idle"
  /\ comp = "none"
  /\ inputs = <<>>
  /\ tick = 0
  /\ locals = BlankLocals
  /\ outputs = <<>>
  /\ stale = FALSE

\* the call: the statements before the loop
StartRun(c) ==
  /\ simPc \in {"idle", "done"}
  /\ simPc' = "running"
  /\ comp' = c
  /\ inputs' = [sig \in Reads(c) |-> <<>>]
  /\ tick' = 0
  /\ locals' = NewFrame(c, locals)
  /\ outputs' = <<>>
  /\ stale' = (stale \/ Dirty(locals))

\* iteration t = tick of the loop, when n_ticks allows one more
Tick(limit) ==
  /\ simPc = "running"
  /\ tick < limit
  /\ \E v \in TickInputs(comp) :
       /\ ClockTail(comp, inputs, tick, v)
       /\ inputs' = [sig \in DOMAIN inputs |-> Append(inputs[sig], v[sig])]
       /\ locals' = SimTick(comp, locals, inputs', tick)
  /\ tick' = tick + 1
  /\ UNCHANGED <<simPc, comp, outputs, stale>>

\* the return statement, when n_ticks = tick
Return ==
  /\ simPc = "running"
  /\ simPc' = "done"
  /\ outputs' = SimRet(comp, locals)
  /\ UNCHANGED <<comp, inputs, tick, locals, stale>>

(***************************************************************************)
(* process_level.  A level file is a record                                *)
(*   [name, pins, waveforms], waveforms a list of                          *)
(*   [pin_index, is_input, values, test].                                  *)
(***************************************************************************)
\* Python's None as a signal name
NoName == "<None>"

\* n_ticks = 64, the tick count of a level without input waveforms
DefaultTicks == 64

\* idx_to_input / idx_to_output: pin_map[sig] -> sig for the signals in
\* pin_map, a later signal of the list replacing an earlier one
IdxToSig(signals, pin_map) ==
  LET idxs == {i \in DOMAIN signals : signals[i] \in DOMAIN pin_map}
  IN [p \in {pin_map[signals[i]] : i \in idxs} |->
        signals[CHOOSE i \in idxs :
                  /\ pin_map[signals[i]] = p
                  /\ \A j \in idxs : pin_map[signals[j]] = p => j <= i]]

\* idx_to.get(pin_idx), or the level's own pin name, or None
SigName(idx_to, pins, pin_idx) ==
  IF pin_idx \in DOMAIN idx_to THEN idx_to[pin_idx]
  ELSE IF pin_idx < Len(pins) THEN At(pins, pin_idx)
  ELSE NoName

\* [1 if c == '1' else 0 for c in values_str]
ParseValues(values_str) ==
  [i \in DOMAIN values_str |-> IF values_str[i] = "1" THEN 1 ELSE 0]

\* ''.join(str(v) for v in new_values)
FormatValues(new_values) ==
  [i \in DOMAIN new_values |-> IF new_values[i] = 0 THEN "0" ELSE "1"]

\* the loop over the input waveforms from index i on;
\* acc = [inputs, n_ticks]
RECURSIVE ReadInputs(_, _, _, _, _)
ReadInputs(wfs, i, idx_to_input, pins, acc) ==
  IF i >= Len(wfs) THEN acc
  ELSE LET wf == At(wfs, i)
           sig_name == SigName(idx_to_input, pins, wf.pin_index)
       IN IF ~wf.is_input \/ sig_name \in {"vcc", "nc", NoName}
            THEN ReadInputs(wfs, i + 1, idx_to_input, pins, acc)
            ELSE ReadInputs(wfs, i + 1, idx_to_input, pins,
                   [inputs |-> (sig_name :> ParseValues(wf.values)) @@ acc.inputs,
                    n_ticks |-> Len(wf.values)])

\* if old_values != new_values_str or old_test != new_test
DiffersFromValues(wf, new_values_str, new_test) ==
  wf.values # new_values_str \/ wf.test # new_values_str
Differs(wf, new_values_str, new_test) ==
  wf.values # new_values_str \/ wf.test # new_test

\* the loop over the output waveforms from index i on;
\* acc = [wfs, modified]
RECURSIVE UpdateOutputs(_, _, _, _, _, _, _)
UpdateOutputs(acc, i, idx_to_output, pins, outs, stability_ticks, warmup_ticks) ==
  IF i >= Len(acc.wfs) THEN acc
  ELSE LET wf == At(acc.wfs, i)
           out_name == SigName(idx_to_output, pins, wf.pin_index)
       IN IF wf.is_input \/ out_name \notin DOMAIN outs
            THEN UpdateOutputs(acc, i + 1, idx_to_output, pins, outs,
                               stability_ticks, warmup_ticks)
            ELSE LET new_values == outs[out_name]
                     new_values_str == FormatValues(new_values)
                     new_test == generate_test_vector(new_values,
                                   stability_ticks, warmup_ticks)
                 IN IF Differs(wf, new_values_str, new_test)
                      THEN UpdateOutputs(
                             [wfs |-> [acc.wfs EXCEPT ![i + 1] =
                                         [wf EXCEPT !.values = new_values_str,
                                                    !.test = new_test]],
                              modified |-> TRUE],
                             i + 1, idx_to_output, pins, outs,
                             stability_ticks, warmup_ticks)
                      ELSE UpdateOutputs(acc, i + 1, idx_to_output, pins, outs,
                                         stability_ticks, warmup_ticks)

\* the input waveforms and tick count process_level hands to the simulation
LevelInputs(doc) ==
  LET config == LEVEL_CONFIG[doc.name]
  IN ReadInputs(doc.waveforms, 0, IdxToSig(config.inputs, config.pin_map),
                doc.pins, [inputs |-> <<>>, n_ticks |-> DefaultTicks])

\* try: outputs = config['sim'](inputs, n_ticks) / except Exception
RunSimUncaught(name, ins, n_ticks) ==
  LET r == Sim(name, ins, n_ticks)
  IN IF r.ok THEN [caught |-> FALSE, raised |-> FALSE, out |-> r.out]
     ELSE [caught |-> FALSE, raised |-> TRUE]
RunSim(name, ins, n_ticks) ==
  LET r == Sim(name, ins, n_ticks)
  IN IF r.ok THEN [caught |-> FALSE, raised |-> FALSE, out |-> r.out]
     ELSE [caught |-> TRUE, raised |-> FALSE]

\* process_level(level_path, dry_run) on a file holding doc:
\* [raised, ret, data, file, report]
process_level(doc, dry_run) ==
  IF doc.name \notin Catalog
    THEN [raised |-> FALSE, ret |-> FALSE, data |-> doc, file |-> doc,
          report |-> "No config"]
  ELSE
    LET config == LEVEL_CONFIG[doc.name]
        in == LevelInputs(doc)
        sim == RunSim(doc.name, in.inputs, in.n_ticks)
    IN IF sim.raised
         THEN [raised |-> TRUE, ret |-> FALSE, data |-> doc, file |-> doc,
               report |-> "none"]
       ELSE IF sim.caught
         THEN [raised |-> FALSE, ret |-> FALSE, data |-> doc, file |-> doc,
               report |-> "Simulation error"]
       ELSE
         LET upd == UpdateOutputs([wfs |-> doc.waveforms, modified |-> FALSE], 0,
                                  IdxToSig(config.outputs, config.pin_map),
                                  doc.pins, sim.out,
                                  StabilityTicksOf(doc.name),
                                  WarmupTicksOf(doc.name))
             data1 == [doc EXCEPT !.waveforms = upd.wfs]
         IN [raised |-> FALSE, ret |-> upd.modified, data |-> data1,
             file |-> IF upd.modified /\ ~dry_run THEN data1 ELSE doc,
             report |-> IF upd.modified THEN "changed" ELSE "none"]

(***************************************************************************)
(* The level files of the model: a CX74 level, a CX93 level and a level    *)
(* naming a chip the catalog does not hold, with up to two input waveforms *)
(* on pins 1 .. 3 and the output waveforms of a stored layout.             *)
(***************************************************************************)
LevelNames == {"CX74", "CX93", "CX999"}

LevelPins(name) ==
  CASE name = "CX74" -> <<"vcc", "D", "CLK", "AUX", "nc", "nc", "nc", "Q", "~Q">>
    [] name = "CX93" -> <<"vcc", "CLK", "nc", "AUX", "nc", "nc", "nc", "Y", "nc">>
    [] OTHER -> <<"vcc", "A", "B", "AUX", "nc", "nc", "nc", "Y", "nc">>

InputWfs ==
  {[pin_index |-> p, is_input |-> TRUE, values |-> v, test |-> <<>>] :
     p \in {1, 2, 3}, v \in SeqsUpTo({"0", "1"}, MaxValLen)}

InputLists ==
  {<<>>} \cup {<<a>> : a \in InputWfs} \cup {<<a, b>> : a \in InputWfs, b \in InputWfs}

OutputWf(p, v, x) == [pin_index |-> p, is_input |-> FALSE, values |-> v, test |-> x]

OutputLists ==
  { <<>>,
    <<OutputWf(7, <<>>, <<>>)>>,
    <<OutputWf(7, <<"0", "1">>, <<"?", "x">>), OutputWf(8, <<"1", "0">>, <<"x", "?">>)>> }

LevelDocs ==
  {[name |-> nm, pins |-> LevelPins(nm), waveforms |-> i \o o] :
     nm \in LevelNames, i \in InputLists, o \in OutputLists}

\* no level file: what the variables of process_level hold outside a call
NoLevel == [name |-> "", pins |-> <<>>, waveforms |-> <<>>]

(***************************************************************************)
(* main                                                                    *)
(***************************************************************************)
MainInit ==
  /\ mainPc = "start"
  /\ remaining \in 0..MaxLevels
  /\ dryRun \in BOOLEAN
  /\ modified_count = 0
  /\ exit_code = -1
  /\ level = NoLevel
  /\ data = NoLevel
  /\ file = NoLevel
  /\ ret = FALSE
  /\ report = "none"
  /\ skipped = FALSE
  /\ passes = 0

\* if not level_files: return 1; modified_count = 0
MainStart ==
  /\ mainPc = "start"
  /\ IF remaining = 0
       THEN mainPc' = "done" /\ exit_code' = 1
       ELSE mainPc' = "loop" /\ exit_code' = exit_code
  /\ UNCHANGED <<remaining, dryRun, modified_count, level, data, file, ret,
                 report, skipped, passes>>
  /\ UNCHANGED <<tvVars, simVars>>

\* the call process_level(level_path, args.dry_run) of the next level file
ProcessLevel ==
  /\ mainPc = "loop"
  /\ remaining > 0
  /\ \E doc \in LevelDocs :
       LET r == process_level(doc, dryRun)
       IN /\ level' = doc
          /\ data' = r.data
          /\ file' = r.file
          /\ ret' = r.ret
          /\ report' = r.report
          /\ mainPc' = IF r.raised THEN "crashed" ELSE "processed"
  /\ passes' = 1
  /\ UNCHANGED <<remaining, dryRun, modified_count, exit_code, skipped>>
  /\ UNCHANGED <<tvVars, simVars>>

\* a further call process_level(level_path, dry_run) on the same path, as a
\* second run of the script on the level file makes: it loads what the call
\* before left in the file
Reprocess ==
  /\ mainPc = "processed"
  /\ passes < MaxPasses
  /\ \E r \in {process_level(file, dryRun)} :
        /\ level' = file
        /\ data' = r.data
        /\ file' = r.file
        /\ ret' = r.ret
        /\ report' = r.report
        /\ mainPc' = IF r.raised THEN "crashed" ELSE "processed"
  /\ passes' = passes + 1
  /\ UNCHANGED <<remaining, dryRun, modified_count, exit_code, skipped>>
  /\ UNCHANGED <<tvVars, simVars>>

\* if process_level(...): modified_count += 1, and on to the next level file
MainLoop ==
  /\ mainPc = "processed"
  /\ modified_count' = modified_count + (IF ret THEN 1 ELSE 0)
  /\ remaining' = remaining - 1
  /\ skipped' = (skipped \/ report \in {"No config", "Simulation error"})
  /\ level' = NoLevel
  /\ data' = NoLevel
  /\ file' = NoLevel
  /\ ret' = FALSE
  /\ report' = "none"
  /\ passes' = 0
  /\ mainPc' = "loop"
  /\ UNCHANGED <<dryRun, exit_code>>
  /\ UNCHANGED <<tvVars, simVars>>

\* after the loop: return 0
MainReturn ==
  /\ mainPc = "loop"
  /\ remaining = 0
  /\ mainPc' = "done"
  /\ exit_code' = 0
  /\ UNCHANGED <<remaining, dryRun, modified_count, level, data, file, ret,
                 report, skipped, passes>>
  /\ UNCHANGED <<tvVars, simVars>>

(***************************************************************************)
(* Specifications                                                          *)
(***************************************************************************)
\* the parts of the state a specification does not use
TVOff ==
  /\ tvPc = "off" /\ tvComp = "direct" /\ tvValues = <<>>
  /\ tvStab = 0 /\ tvWarm = 0 /\ tvTest = <<>>
MainOff ==
  /\ mainPc = "off" /\ remaining = 0 /\ dryRun = FALSE /\ modified_count = 0
  /\ exit_code = -1 /\ level = NoLevel /\ data = NoLevel /\ file = NoLevel
  /\ ret = FALSE /\ report = "none" /\ skipped = FALSE /\ passes = 0

\* SpecTV: calls of generate_test_vector
TVCall == GenerateTestVector /\ UNCHANGED <<simVars, mainVars>>
TVNext == TVCall
InitTV == TVInit /\ SimInit /\ MainOff
SpecTV == InitTV /\ [][TVNext]_vars

\* SpecSim: one run of a simulation function, tick by tick
SimStart == (\E c \in SimComps : StartRun(c)) /\ UNCHANGED <<tvVars, mainVars>>
SimStep == Tick(TicksOf(comp)) /\ UNCHANGED <<tvVars, mainVars>>
SimNext == SimStart \/ SimStep
InitSim == TVOff /\ SimInit /\ MainOff
SpecSim == InitSim /\ [][SimNext]_vars

\* SpecIso: runs of the simulation functions one after the other
IsoStep == Tick(IsoTicks) /\ UNCHANGED <<tvVars, mainVars>>
IsoReturn == Return /\ UNCHANGED <<tvVars, mainVars>>
IsoNext == SimStart \/ IsoStep \/ IsoReturn
SpecIso == InitSim /\ [][IsoNext]_vars

\* SpecCat: one run of any chip of the catalog, from the call to the return
CatStart ==
  /\ simPc = "idle"
  /\ \E c \in Catalog : StartRun(c)
  /\ UNCHANGED <<tvVars, mainVars>>
CatStep == Tick(CatTicks) /\ UNCHANGED <<tvVars, mainVars>>
CatReturn == Return /\ UNCHANGED <<tvVars, mainVars>>
CatNext == CatStart \/ CatStep \/ CatReturn
SpecCat == InitSim /\ [][CatNext]_vars

\* SpecBatch: main over a batch of level files
BatchNext == MainStart \/ ProcessLevel \/ MainLoop \/ MainReturn
InitBatch == TVOff /\ SimInit /\ MainInit
SpecBatch == InitBatch /\ [][BatchNext]_vars

\* SpecTwice: process_level called again and again on one level file
TwiceNext == MainStart \/ ProcessLevel \/ Reprocess
SpecTwice == InitBatch /\ [][TwiceNext]_vars
(***************************************************************************)
(* Claims about generate_test_vector (SpecTV)                              *)
(***************************************************************************)
\* the indices i >= 1 of a waveform whose value differs from the one before
Transitions(values) ==
  {i \in 1..(Len(values) - 1) : At(values, i) # At(values, i - 1)}

\* index k lies in the stability window i .. i+stability_ticks-1 of a transition i
InSomeWindow(values, stability_ticks, k) ==
  \E i \in Transitions(values) : i <= k /\ k <= i + stability_ticks - 1

\* the transition at i and the stability_ticks - 1 indices after it that lie
\* inside the waveform are don't-care
WindowMarked(i) ==
  \A k \in {i} \cup (i + 1)..(i + tvStab - 1) :
     k < Len(tvValues) => At(tvTest, k) = "x"

\* C1 as stated: for every cataloged chip and its configured stability_ticks,
\* the test vector is don't-care at every transition index and through the
\* transition's stability window.
C1_TransitionCoverageEveryChip ==
  (tvPc = "ret" /\ tvComp \in Catalog) =>
     \A i \in Transitions(tvValues) : WindowMarked(i)

\* C1 amended: the same for every cataloged chip whose stability_ticks is at
\* least 1, also for a transition inside an earlier transition's window; for
\* the chips configured with stability_ticks = 0 (CX556, CXF02) no transition
\* index is made don't-care: it keeps the marker '?'.
C1_TransitionCoverage ==
  (tvPc = "ret" /\ tvComp \in Catalog) =>
     /\ tvStab >= 1 => \A i \in Transitions(tvValues) : WindowMarked(i)
     /\ tvStab = 0 =>
          /\ tvComp \in {"CX556", "CXF02"}
          /\ \A i \in Transitions(tvValues) : At(tvTest, i) = "?"

\* C1 witness: a cataloged chip's vector with a transition inside an earlier
\* transition's window, whose own window ends later and inside the waveform.
C1_Witness ==
  /\ tvPc = "ret" /\ tvComp \in Catalog /\ tvStab >= 2
  /\ \E i, j \in Transitions(tvValues) :
       /\ i < j /\ j <= i + tvStab - 1
       /\ j + tvStab - 1 < Len(tvValues)
       /\ At(tvTest, j + tvStab - 1) = "x"

\* the character of a waveform value in a 'values' string
ValueSymbol(v) == IF v = 1 THEN "1" ELSE "0"

\* the indices outside the warm-up and outside every stability window
Settled ==
  {k \in 0..(Len(tvValues) - 1) :
     k >= tvWarm /\ ~InSomeWindow(tvValues, tvStab, k)}

\* C2 as stated: at every index outside the warm-up and every stability
\* window the symbol is the waveform's own value ('0' or '1').
C2_SettledSymbolIsValue ==
  tvPc = "ret" => \A k \in Settled : At(tvTest, k) = ValueSymbol(At(tvValues, k))

\* C2 amended: at every index outside the warm-up and every stability window
\* the symbol is the marker '?', whatever the waveform's value there, and so
\* never don't-care.
C2_SettledSymbolIsMarker ==
  tvPc = "ret" => \A k \in Settled : At(tvTest, k) = "?" /\ At(tvTest, k) # "x"

\* C2 witness: a vector with a settled index of value 1 and one of value 0,
\* after a warm-up and a transition window.
C2_Witness ==
  /\ tvPc = "ret" /\ tvWarm >= 1 /\ tvStab >= 2
  /\ Transitions(tvValues) # {}
  /\ \E k, m \in Settled :
       /\ At(tvValues, k) = 1 /\ At(tvValues, m) = 0
       /\ At(tvTest, k) = "?" /\ At(tvTest, m) = "?"

\* C3: with warmup_ticks = w > 0 (CX279, CX279E, and any direct call) the
\* first min(w, N) symbols of the returned vector are don't-care, whatever
\* the waveform holds and whatever the transition loop did after.
C3_WarmupDominance ==
  (tvPc = "ret" /\ tvWarm > 0) =>
     \A k \in 0..(Min(tvWarm, Len(tvValues)) - 1) : At(tvTest, k) = "x"

\* C3 witness: a CX279 or CX279E vector whose warm-up indices carry no
\* transition and a 1, and which has a transition after the warm-up.
C3_Witness ==
  /\ tvPc = "ret" /\ tvComp \in {"CX279", "CX279E"} /\ tvWarm = 2
  /\ Len(tvValues) > tvWarm
  /\ At(tvValues, 0) = 1 /\ At(tvValues, 1) = 1
  /\ \E i \in Transitions(tvValues) : i > tvWarm
  /\ At(tvTest, 0) = "x" /\ At(tvTest, 1) = "x"

\* C4: the returned vector has the length of the waveform, also when
\* warmup_ticks or stability_ticks exceed it; the empty waveform gives the
\* empty vector.
C4_MaskLength ==
  tvPc = "ret" =>
     /\ Len(tvTest) = Len(tvValues)
     /\ tvValues = <<>> => tvTest = <<>>

\* C4 witness: a waveform shorter than both hints, with a transition.
C4_Witness ==
  /\ tvPc = "ret"
  /\ Len(tvValues) >= 2 /\ tvWarm > Len(tvValues) /\ tvStab > Len(tvValues)
  /\ Transitions(tvValues) # {}
  /\ Len(tvTest) = Len(tvValues)

(***************************************************************************)
(* Claims about the simulation functions (SpecIso, SpecSim)                *)
(***************************************************************************)
\* what the running function returns when its loop ends now
Out == SimRet(comp, locals)

\* C5: the output waveforms of a run are a function of its input waveforms
\* and tick count alone: whatever runs came before, a run starts from the
\* reset state and returns what a first run from the reset state returns on
\* the same inputs, so two runs with identical inputs agree bit for bit.
C5_RunIsolation ==
  /\ (simPc = "running" /\ tick = 0) => ~Dirty(locals)
  /\ simPc = "running" => Out = Sim(comp, inputs, tick).out
  /\ simPc = "done" => outputs = Sim(comp, inputs, tick).out

\* C5 witness: a memory run that returned after an earlier run had left
\* written cells or a counted clock edge behind, and that read 0 at tick 0.
C5_Witness ==
  /\ simPc = "done" /\ stale /\ comp = "CX6116" /\ tick = IsoTicks
  /\ At(inputs["RE"], 0) = 1 /\ At(inputs["WE"], 0) = 0
  /\ At(outputs["D_out"], 0) = 0
  /\ outputs = Sim(comp, inputs, tick).out

\* tick t >= 1 of a clock waveform is a rising edge
RisingAt(clk, t) == t >= 1 /\ At(clk, t - 1) = 0 /\ At(clk, t) = 1

\* the CX74 scenario of the specification
Cx74Scenario == ("CLK" :> <<0, 1, 1, 0, 1>> @@ "D" :> <<0, 0, 1, 1, 1>>)

\* C6: CX74: at every tick t >= 1, Q[t] = D[t] when CLK rose at t (the capture
\* shows in the same tick) and Q[t] = Q[t-1] otherwise; CLK = 0,1,1,0,1 and
\* D = 0,0,1,1,1 give Q = 0,0,0,0,1.
C6_EdgeTriggeredRegister ==
  (simPc = "running" /\ comp = "CX74") =>
     /\ \A t \in 1..(tick - 1) :
          IF RisingAt(inputs["CLK"], t)
            THEN At(Out["Q"], t) = At(inputs["D"], t)
            ELSE At(Out["Q"], t) = At(Out["Q"], t - 1)
     /\ inputs = Cx74Scenario => Out["Q"] = <<0, 0, 0, 0, 1>>

\* C6 witness: the scenario has run, and its last tick captured D = 1.
C6_Witness ==
  /\ simPc = "running" /\ comp = "CX74" /\ tick = 5
  /\ inputs = Cx74Scenario
  /\ Out["Q"] = <<0, 0, 0, 0, 1>>

\* the rising edges of a clock waveform at ticks 1 .. t
EdgesUpTo(clk, t) == Cardinality({u \in 1..t : RisingAt(clk, u)})

\* C7: CX93, for a CLK that starts at 0: Y starts low; Y = 1 exactly when the
\* rising edges so far, modulo 4, number 2 or 3; Y changes exactly at the
\* ticks of the even-numbered rising edges (2nd, 4th, 6th, 8th), going high
\* at the 2nd and 6th and low at the 4th and 8th.
C7_DivideByFour ==
  (simPc = "running" /\ comp = "CX93" /\ tick >= 1 /\ At(inputs["CLK"], 0) = 0) =>
     LET clk == inputs["CLK"]
         Y == Out["Y"]
     IN /\ At(Y, 0) = 0
        /\ \A t \in 0..(tick - 1) :
             (At(Y, t) = 1) <=> (EdgesUpTo(clk, t) % 4 >= 2)
        /\ \A t \in 1..(tick - 1) :
             /\ (At(Y, t) # At(Y, t - 1)) <=>
                  (RisingAt(clk, t) /\ EdgesUpTo(clk, t) % 2 = 0)
             /\ (RisingAt(clk, t) /\ EdgesUpTo(clk, t) \in {2, 6}) =>
                  (At(Y, t - 1) = 0 /\ At(Y, t) = 1)
             /\ (RisingAt(clk, t) /\ EdgesUpTo(clk, t) \in {4, 8}) =>
                  (At(Y, t - 1) = 1 /\ At(Y, t) = 0)

\* C7 witness: eight rising edges have passed and Y has changed four times.
C7_Witness ==
  /\ simPc = "running" /\ comp = "CX93" /\ tick >= 1
  /\ At(inputs["CLK"], 0) = 0
  /\ EdgesUpTo(inputs["CLK"], tick - 1) = 8
  /\ Cardinality({t \in 1..(tick - 1) : At(Out["Y"], t) # At(Out["Y"], t - 1)}) = 4
  /\ At(Out["Y"], tick - 1) = 0

\* the address lines of the memory at tick t
AddrLines(t) == <<At(inputs["A2"], t), At(inputs["A1"], t), At(inputs["A0"], t)>>

\* the ticks before t that wrote the cell addressed at tick t
WritesBefore(t) ==
  {u \in 0..(t - 1) :
     /\ At(inputs["WE"], u) = 1 /\ At(inputs["RE"], u) = 0
     /\ AddrLines(u) = AddrLines(t)}

\* the largest element of a non-empty set of ticks
Latest(T) == CHOOSE u \in T : \A w \in T : w <= u

\* C8: CX6116: on a tick with RE = 1 and WE = 0, D_out is D_in of the latest
\* earlier tick with WE = 1, RE = 0 and the same address lines, or 0 when
\* there is none; writes to other addresses in between change nothing.
C8_ReadAfterWrite ==
  (simPc = "running" /\ comp = "CX6116") =>
     \A t \in 0..(tick - 1) :
        (At(inputs["RE"], t) = 1 /\ At(inputs["WE"], t) = 0) =>
           At(Out["D_out"], t) =
             (IF WritesBefore(t) = {} THEN 0
              ELSE At(inputs["D_in"], Latest(WritesBefore(t))))

\* C8 witness: 1 written to address 5, then 0 written to address 1, then
\* address 5 read back as 1.
C8_Witness ==
  /\ simPc = "running" /\ comp = "CX6116" /\ tick = 3
  /\ AddrLines(0) = <<1, 0, 1>> /\ AddrLines(1) = <<0, 0, 1>> /\ AddrLines(2) = <<1, 0, 1>>
  /\ At(inputs["WE"], 0) = 1 /\ At(inputs["RE"], 0) = 0 /\ At(inputs["D_in"], 0) = 1
  /\ At(inputs["WE"], 1) = 1 /\ At(inputs["RE"], 1) = 0 /\ At(inputs["D_in"], 1) = 0
  /\ At(inputs["WE"], 2) = 0 /\ At(inputs["RE"], 2) = 1
  /\ At(Out["D_out"], 2) = 1

(***************************************************************************)
(* Claims about process_level and main (SpecBatch)                         *)
(***************************************************************************)
\* process_level has returned from, or raised out of, the call on level
Called == mainPc \in {"processed", "crashed"}

\* the level was reported with the message msg and skipped: process_level
\* returned False and changed neither its data nor the file
Skipped(msg) ==
  /\ mainPc = "processed"
  /\ report = msg
  /\ ret = FALSE
  /\ data = level
  /\ file = level

\* two input signals the chip declares were supplied with different lengths
LengthMismatch(doc) ==
  /\ doc.name \in Catalog
  /\ LET ins == LevelInputs(doc).inputs
     IN \E a, b \in Reads(doc.name) \cap DOMAIN ins : Len(ins[a]) # Len(ins[b])

\* C9 as stated: a level whose input waveforms differ in length is skipped:
\* process_level returns False and none of the level's output waveforms or
\* test vectors is changed, in its data or in the file.  (The claim has the
\* run reported as well; the formula leaves the message aside, so that what
\* violates it is a level that was rewritten.)
C9_LengthMismatchSkipped ==
  (Called /\ LengthMismatch(level)) =>
     (mainPc = "processed" /\ ret = FALSE /\ data = level /\ file = level)

\* the level names a chip the catalog does not hold
UnknownChip(doc) == doc.name \notin Catalog

\* the chip's function raises: with at least one tick to run, an input
\* signal it declares is absent from the mapping or ends before n_ticks
SimFaults(doc) ==
  /\ doc.name \in Catalog
  /\ LET in == LevelInputs(doc)
     IN /\ in.n_ticks >= 1
        /\ \E sig \in Reads(doc.name) :
             sig \notin DOMAIN in.inputs \/ Len(in.inputs[sig]) < in.n_ticks

\* C10: a level naming an uncataloged chip, or whose simulation function
\* raises, is reported and skipped: process_level returns False with its data
\* and the file unchanged, no exception leaves it, and after a skipped level
\* main goes on to process the level files that remain.
C10_FailureIsolation ==
  /\ (Called /\ UnknownChip(level)) => Skipped("No config")
  /\ (Called /\ SimFaults(level)) => Skipped("Simulation error")
  /\ (mainPc = "processed" /\ report \in {"No config", "Simulation error"}) =>
       ENABLED MainLoop
  /\ (mainPc = "loop" /\ skipped /\ remaining > 0) => ENABLED ProcessLevel

\* C10 witness: after an earlier level of the batch was skipped, a CX74 level
\* without a CLK waveform and with stored output waveforms has been processed:
\* the function raised on the absent input and the level was skipped too.
C10_Witness ==
  /\ mainPc = "processed" /\ skipped
  /\ level.name = "CX74" /\ SimFaults(level)
  /\ "CLK" \notin DOMAIN LevelInputs(level).inputs
  /\ \E i \in DOMAIN level.waveforms :
       ~level.waveforms[i].is_input /\ level.waveforms[i].values # <<>>
  /\ Skipped("Simulation error")

(***************************************************************************)
(* Claims about the chip models (SpecCat, SpecSim)                         *)
(***************************************************************************)
\* config['outputs'] of a chip, as a set of names
Declared(c) == Elems(LEVEL_CONFIG[c].outputs)

\* C11: a run of any cataloged chip that returns with tick count N returns a
\* mapping whose keys are exactly the chip's declared output names, each
\* mapped to a waveform of length N.
C11_OutputShape ==
  simPc = "done" =>
     /\ DOMAIN outputs = Declared(comp)
     /\ \A k \in DOMAIN outputs : Len(outputs[k]) = tick

\* C11 witness: the adder has returned its three waveforms of CatTicks ticks,
\* and the carry was raised in one of them.
C11_Witness ==
  /\ simPc = "done" /\ comp = "CX83" /\ tick = CatTicks
  /\ DOMAIN outputs = {"S0", "S1", "CO"}
  /\ \A k \in DOMAIN outputs : Len(outputs[k]) = CatTicks
  /\ At(outputs["CO"], 0) = 1

\* input mappings handed to a function that declares no input
StrayInputs == {<<>>, ("CLK" :> <<1, 0, 1>>), ("S" :> <<>> @@ "R" :> <<1>>)}

\* C12: CX556: at every tick t, CL1 = 1 exactly when t div 2 is even and
\* CL2 = 1 exactly when t div 4 is even: both start at 1, CL1 toggles every 2
\* ticks and CL2 every 4; the input mapping supplied makes no difference.
C12_Oscillator ==
  (simPc = "running" /\ comp = "CX556") =>
     LET CL1 == Out["CL1"]
         CL2 == Out["CL2"]
     IN /\ \A t \in 0..(tick - 1) :
             /\ At(CL1, t) = (IF (t \div 2) % 2 = 0 THEN 1 ELSE 0)
             /\ At(CL2, t) = (IF (t \div 4) % 2 = 0 THEN 1 ELSE 0)
        /\ tick >= 1 => (At(CL1, 0) = 1 /\ At(CL2, 0) = 1)
        /\ \A t \in 1..(tick - 1) :
             /\ (At(CL1, t) # At(CL1, t - 1)) <=> (t % 2 = 0)
             /\ (At(CL2, t) # At(CL2, t - 1)) <=> (t % 4 = 0)
        /\ \A ins \in StrayInputs :
             Sim("CX556", ins, tick) = [ok |-> TRUE, out |-> Out]

\* C12 witness: two periods of CL2 (four of CL1) have run.
C12_Witness ==
  /\ simPc = "running" /\ comp = "CX556" /\ tick = OscTicks
  /\ SubSeq(Out["CL1"], 1, 8) = <<1, 1, 0, 0, 1, 1, 0, 0>>
  /\ SubSeq(Out["CL2"], 1, 8) = <<1, 1, 1, 1, 0, 0, 0, 0>>
  /\ SubSeq(Out["CL2"], 9, 16) = <<1, 1, 1, 1, 0, 0, 0, 0>>

\* the latch's state after tick t of S, R (and E), by the rule of the claim,
\* from the state before that tick
LatchState(ins, t, before) ==
  LET S == At(ins["S"], t)
      R == At(ins["R"], t)
      enabled == "E" \in DOMAIN ins => At(ins["E"], t) = 1
  IN IF enabled /\ S = 1 /\ R = 0 THEN 1
     ELSE IF enabled /\ R = 1 /\ S = 0 THEN 0
     ELSE before

\* C13: CX279 and CX279E: from state 0, at every tick the state becomes 1
\* when S = 1 and R = 0, becomes 0 when R = 1 and S = 0, and is unchanged
\* when S = R or, for CX279E, when E = 0; Q at a tick is the state after
\* that tick's update.
C13_LevelSensitiveLatch ==
  (simPc = "running" /\ comp \in {"CX279", "CX279E"}) =>
     \A t \in 0..(tick - 1) :
          LET before == IF t = 0 THEN 0 ELSE At(Out["Q"], t - 1)
              hold == \/ At(inputs["S"], t) = At(inputs["R"], t)
                      \/ (comp = "CX279E" /\ At(inputs["E"], t) = 0)
          IN /\ At(Out["Q"], t) = LatchState(inputs, t, before)
             /\ hold => At(Out["Q"], t) = before

\* C13 witness: a CX279E run that was set, ignored a reset while disabled,
\* held with both lines asserted, and was reset once enabled.
C13_Witness ==
  /\ simPc = "running" /\ comp = "CX279E" /\ tick = 4
  /\ inputs["S"] = <<1, 0, 1, 0>>
  /\ inputs["R"] = <<0, 1, 1, 1>>
  /\ inputs["E"] = <<1, 0, 1, 1>>
  /\ Out["Q"] = <<1, 1, 1, 0>>

\* C14: CX6116: a tick with WE and RE both asserted or both deasserted leaves
\* all 8 memory cells as they were and gives D_out = 0 for that tick,
\* whatever the address and D_in are.
C14_TiesLeaveMemory ==
  [][(/\ simPc = "running" /\ comp = "CX6116" /\ tick' = tick + 1
      /\ At(inputs'["WE"], tick) = At(inputs'["RE"], tick))
      => (/\ locals'.memory = locals.memory
          /\ Len(locals'.memory) = 8
          /\ At(locals'.d_out, tick) = 0)]_vars

\* C14 witness: 1 was written to address 5; the next tick asserts WE and RE
\* together at address 5 with D_in = 0: the cell still holds 1 and D_out is 0.
C14_Witness ==
  /\ simPc = "running" /\ comp = "CX6116" /\ tick = 2
  /\ AddrLines(0) = <<1, 0, 1>> /\ AddrLines(1) = <<1, 0, 1>>
  /\ At(inputs["WE"], 0) = 1 /\ At(inputs["RE"], 0) = 0 /\ At(inputs["D_in"], 0) = 1
  /\ At(inputs["WE"], 1) = 1 /\ At(inputs["RE"], 1) = 1 /\ At(inputs["D_in"], 1) = 0
  /\ At(locals.memory, 5) = 1
  /\ At(Out["D_out"], 1) = 0

\* the number Q3 Q2 Q1 Q0 of the counter's outputs shows at tick t
Shown(t) ==
  At(Out["Q0"], t) + 2 * At(Out["Q1"], t) + 4 * At(Out["Q2"], t)
    + 8 * At(Out["Q3"], t)

\* the count before tick t: 0 at the start of the run
ShownBefore(t) == IF t = 0 THEN 0 ELSE Shown(t - 1)

\* the outputs of the counter at tick t are bits
ShownBits(t) == \A k \in DOMAIN Out : At(Out[k], t) \in Bit

\* the clock is 1 at tick t and was 0 at tick t - 1 or, at tick 0, in the
\* initial previous-clock sample
EdgeAt(clk, t) == At(clk, t) = 1 /\ (t = 0 \/ At(clk, t - 1) = 0)

\* C15 as stated: CX161: from count 0, at a tick t >= 1 with CLK[t-1] = 0 and
\* CLK[t] = 1 the count becomes 0 if CLR[t] = 1 and (count + 1) mod 16
\* otherwise; at every other tick (tick 0 among them) the count is unchanged;
\* Q3 Q2 Q1 Q0 is the count after the tick's update.
C15_CounterEdgesFromTickOne ==
  (simPc = "running" /\ comp = "CX161") =>
     \A t \in 0..(tick - 1) :
        /\ ShownBits(t)
        /\ Shown(t) =
             (IF RisingAt(inputs["CLK"], t)
                THEN (IF At(inputs["CLR"], t) = 1 THEN 0
                      ELSE (ShownBefore(t) + 1) % 16)
                ELSE ShownBefore(t))

\* C15 amended: the same, with CLK = 1 at tick 0 counted as a rising edge
\* (the previous-clock sample starts at 0): the count becomes 0 or
\* (count + 1) mod 16 at every such edge and is unchanged at every other
\* tick, also when CLR = 1; Q3 Q2 Q1 Q0 is the count after the update.
C15_SynchronousCounter ==
  (simPc = "running" /\ comp = "CX161") =>
     /\ \A t \in 0..(tick - 1) :
          /\ ShownBits(t)
          /\ Shown(t) =
               (IF EdgeAt(inputs["CLK"], t)
                  THEN (IF At(inputs["CLR"], t) = 1 THEN 0
                        ELSE (ShownBefore(t) + 1) % 16)
                  ELSE ShownBefore(t))
     /\ tick >= 1 => Shown(tick - 1) = locals.count

\* C15 witness: a run that counted CLK = 1 at tick 0, held the count on a
\* tick with CLR = 1 and no edge, and later wrapped from 15 to 0.
C15_Witness ==
  /\ simPc = "running" /\ comp = "CX161" /\ tick > FreeTicks
  /\ At(inputs["CLK"], 0) = 1 /\ At(inputs["CLR"], 0) = 0 /\ Shown(0) = 1
  /\ At(inputs["CLK"], 1) = 1 /\ At(inputs["CLR"], 1) = 1 /\ Shown(1) = 1
  /\ Shown(tick - 2) = 15 /\ Shown(tick - 1) = 0
  /\ At(inputs["CLR"], tick - 1) = 0

\* (Q0, Q1, Q2, Q3) of the shift register's outputs at tick t, and before it
Bits(t) == <<At(Out["Q0"], t), At(Out["Q1"], t), At(Out["Q2"], t), At(Out["Q3"], t)>>
BitsBefore(t) == IF t = 0 THEN <<0, 0, 0, 0>> ELSE Bits(t - 1)

\* BitsBefore(t) shifted by one position, with din in front
Shifted(t, din) ==
  <<din, At(BitsBefore(t), 0), At(BitsBefore(t), 1), At(BitsBefore(t), 2)>>

\* the n-th largest element of a set of ticks with at least n elements
RECURSIVE NthLatest(_, _)
NthLatest(T, n) ==
  IF n = 1 THEN Latest(T) ELSE NthLatest(T \ {Latest(T)}, n - 1)

\* DIN sampled at the n-th most recent of the edge ticks T, 0 when T has
\* fewer than n ticks
SampledAt(T, n) ==
  IF Cardinality(T) < n THEN 0 ELSE At(inputs["DIN"], NthLatest(T, n))

\* C16 as stated: CX195: from (0,0,0,0), at a tick t >= 1 with CLK[t-1] = 0
\* and CLK[t] = 1 the register becomes (DIN[t], old Q0, old Q1, old Q2); at
\* every other tick (tick 0 among them) the four bits are unchanged; so Qj
\* holds DIN of the (j+1)-th most recent such edge, or 0 when there were
\* fewer.
C16_ShiftEdgesFromTickOne ==
  (simPc = "running" /\ comp = "CX195") =>
     \A t \in 0..(tick - 1) :
        LET T == {u \in 0..t : RisingAt(inputs["CLK"], u)}
        IN /\ Bits(t) = (IF RisingAt(inputs["CLK"], t)
                           THEN Shifted(t, At(inputs["DIN"], t))
                           ELSE BitsBefore(t))
           /\ \A j \in 0..3 : At(Bits(t), j) = SampledAt(T, j + 1)

\* C16 amended: the same, with CLK = 1 at tick 0 counted as a rising edge
\* (the previous-clock sample starts at 0).
C16_ShiftRegister ==
  (simPc = "running" /\ comp = "CX195") =>
     \A t \in 0..(tick - 1) :
        LET T == {u \in 0..t : EdgeAt(inputs["CLK"], u)}
            Q == Bits(t)
        IN /\ Q = (IF EdgeAt(inputs["CLK"], t)
                     THEN Shifted(t, At(inputs["DIN"], t))
                     ELSE BitsBefore(t))
           /\ \A j \in 0..3 : At(Q, j) = SampledAt(T, j + 1)

\* C16 witness: edges at the ticks 0, 2, 4 and 6 shifted in 1, 0, 1, 1, and
\* the register held at tick 5 with DIN = 0.
C16_Witness ==
  /\ simPc = "running" /\ comp = "CX195" /\ tick = 7
  /\ inputs["CLK"] = <<1, 0, 1, 0, 1, 0, 1>>
  /\ inputs["DIN"] = <<1, 1, 0, 1, 1, 0, 1>>
  /\ Bits(4) = <<1, 0, 1, 0>>
  /\ Bits(5) = <<1, 0, 1, 0>>
  /\ Bits(6) = <<1, 1, 0, 1>>

\* the decoder's outputs at tick t, Y0 first
Decoded(t) == <<At(Out["Y0"], t), At(Out["Y1"], t), At(Out["Y2"], t), At(Out["Y3"], t)>>

\* C17: CX139: at every tick, with E = 1 exactly one of Y0 .. Y3 is 1, the
\* one of index 2 * A1 + A0, and with E = 0 all four are 0; no two outputs
\* are ever 1 together.
C17_DecoderOneHot ==
  (simPc = "running" /\ comp = "CX139") =>
     \A t \in 0..(tick - 1) :
        LET sel == 2 * At(inputs["A1"], t) + At(inputs["A0"], t)
            Y == Decoded(t)
        IN /\ At(inputs["E"], t) = 1 =>
                \A n \in 0..3 : At(Y, n) = (IF n = sel THEN 1 ELSE 0)
           /\ At(inputs["E"], t) = 0 => Y = <<0, 0, 0, 0>>
           /\ \A n, k \in 0..3 : (At(Y, n) = 1 /\ At(Y, k) = 1) => n = k

\* C17 witness: the four addresses selected in turn, then the last one with
\* the decoder disabled.
C17_Witness ==
  /\ simPc = "running" /\ comp = "CX139" /\ tick = 5
  /\ inputs["E"] = <<1, 1, 1, 1, 0>>
  /\ inputs["A1"] = <<0, 0, 1, 1, 1>>
  /\ inputs["A0"] = <<0, 1, 0, 1, 1>>
  /\ Out["Y0"] = <<1, 0, 0, 0, 0>>
  /\ Out["Y1"] = <<0, 1, 0, 0, 0>>
  /\ Out["Y2"] = <<0, 0, 1, 0, 0>>
  /\ Out["Y3"] = <<0, 0, 0, 1, 0>>

\* exclusive or of two bits
Differ(a, b) == IF a = b THEN 0 ELSE 1

\* C18: CXF02: Y[t] = CLK[t] when S[t] = 0; when S[t] = 1, Y[t] is CLK[t] XOR
\* CLK[t-2] for t >= 2 and CLK[t] for t < 2; the delayed sample is the CLK
\* input of two ticks earlier whatever S was then.
C18_FrequencyMultiplier ==
  (simPc = "running" /\ comp = "CXF02") =>
     \A t \in 0..(tick - 1) :
        At(Out["Y"], t) =
          (IF At(inputs["S"], t) = 0 THEN At(inputs["CLK"], t)
           ELSE IF t >= 2
             THEN Differ(At(inputs["CLK"], t), At(inputs["CLK"], t - 2))
           ELSE At(inputs["CLK"], t))

\* C18 witness: S = 1 at tick 1 passes CLK on; at the ticks 2, 3, 4 the output
\* is CLK XOR CLK of two ticks before, sampled at ticks where S was 0 and 1.
C18_Witness ==
  /\ simPc = "running" /\ comp = "CXF02" /\ tick = 5
  /\ inputs["CLK"] = <<1, 1, 1, 0, 0>>
  /\ inputs["S"] = <<0, 1, 1, 1, 1>>
  /\ Out["Y"] = <<1, 1, 0, 1, 1>>

\* C19: CX279, CX279E and CX74: at every tick, tick 0 and the ticks where
\* the state holds among them, ~Q = 1 - Q, so Q and ~Q are never equal.
C19_ComplementaryOutputs ==
  (simPc = "running" /\ comp \in {"CX279", "CX279E", "CX74"}) =>
     /\ Len(Out["~Q"]) = Len(Out["Q"])
     /\ \A t \in 0..(tick - 1) :
          /\ At(Out["~Q"], t) = 1 - At(Out["Q"], t)
          /\ At(Out["~Q"], t) # At(Out["Q"], t)

\* C19 witness: a CX279 run set at tick 1 that holds with S = R = 0 and with
\* S = R = 1: Q = 0, 1, 1, 1 and ~Q = 1, 0, 0, 0.
C19_Witness ==
  /\ simPc = "running" /\ comp = "CX279" /\ tick = 4
  /\ inputs["S"] = <<0, 1, 0, 1>>
  /\ inputs["R"] = <<0, 0, 0, 1>>
  /\ Out["Q"] = <<0, 1, 1, 1>>
  /\ Out["~Q"] = <<1, 0, 0, 0>>

\* the edge-triggered chips
EdgeChips == {"CX74", "CX93", "CX161", "CX195"}

\* C20: CX74, CX93, CX161 and CX195 start a run with the previous-clock
\* sample at 0, so CLK = 1 at tick 0 is a rising edge: at tick 0 the register
\* captures D, the divider counts 1, the counter counts 1 or clears, and the
\* shift register shifts DIN in.
C20_TickZeroEdge ==
  (simPc = "running" /\ comp \in EdgeChips) =>
     /\ tick = 0 => locals.prev_clk = 0
     /\ (tick >= 1 /\ At(inputs["CLK"], 0) = 1) =>
          /\ comp = "CX74" => At(Out["Q"], 0) = At(inputs["D"], 0)
          /\ (comp = "CX93" /\ tick = 1) => locals.count = 1
          /\ (comp = "CX93" /\ tick >= 3 /\ SubSeq(inputs["CLK"], 1, 3) = <<1, 0, 1>>)
               => At(Out["Y"], 2) = 1
          /\ comp = "CX161" =>
               Shown(0) = (IF At(inputs["CLR"], 0) = 1 THEN 0 ELSE 1)
          /\ comp = "CX195" => Bits(0) = <<At(inputs["DIN"], 0), 0, 0, 0>>

\* C20 witness: a CX195 run whose first tick has CLK = 1 and DIN = 1 and
\* shows (1, 0, 0, 0) at tick 0.
C20_Witness ==
  /\ simPc = "running" /\ comp = "CX195" /\ tick = 2
  /\ At(inputs["CLK"], 0) = 1 /\ At(inputs["DIN"], 0) = 1
  /\ Bits(0) = <<1, 0, 0, 0>>

(***************************************************************************)
(* Claims about repeated calls of process_level (SpecTwice)                *)
(***************************************************************************)
\* the waveforms of a and b are as many, and those a holds as inputs are the
\* same in b at the same place
SameInputs(a, b) ==
  /\ Len(b.waveforms) = Len(a.waveforms)
  /\ \A i \in DOMAIN a.waveforms :
       a.waveforms[i].is_input => b.waveforms[i] = a.waveforms[i]

\* process_level on doc finds nothing to change, with or without dry_run
Settles(doc) ==
  \A d \in BOOLEAN :
     LET r == process_level(doc, d)
     IN ~r.raised /\ ~r.ret /\ r.data = doc /\ r.file = doc

\* C21: reconciliation is idempotent: a call of process_level that loads the
\* document the call before produced finds every output waveform and test
\* vector equal to the stored one, changes nothing and returns False; the
\* document a call produces is one process_level finds nothing to change in;
\* no call alters an input waveform, in its data or in the file.
C21_Idempotent ==
  [][mainPc' = "processed" =>
       /\ SameInputs(level', data') /\ SameInputs(level', file')
       /\ Settles(data')
       /\ (passes' >= 2 /\ level' = data) =>
            (~ret' /\ data' = level' /\ file' = level' /\ report' # "changed")]_vars

\* C21 witness: a CX74 level whose stored Q and ~Q the first call replaced
\* and wrote; the second call loaded the written file, changed nothing and
\* returned False.
C21_Witness ==
  /\ mainPc = "processed" /\ passes = 2 /\ ~dryRun
  /\ level.name = "CX74" /\ Len(level.waveforms) = 4
  /\ level.waveforms[3].values = <<"0", "0">>
  /\ level.waveforms[3].test = <<"?", "?">>
  /\ level.waveforms[4].values = <<"1", "1">>
  /\ ~ret /\ data = level /\ file = level
=============================================================================
